---- MODULE Spec2Model ----
(***************************************************************************)
(* Model of the two command-line tools of the repository:                  *)
(*   Tool A  claude-skills/git-commit-message-generator.py                 *)
(*   Tool B  claude-skills/tmux_config_validator.py                        *)
(*                                                                         *)
(* A configuration line is the sequence of its whitespace-separated        *)
(* tokens (the result of line.strip() followed by the regular expressions  *)
(* of the checks, which only look at tokens).  The substring and regular   *)
(* expression tests of the code are tables over the token vocabulary.      *)
(***************************************************************************)
EXTENDS Integers, Sequences, FiniteSets, TLC

VARIABLES
    env,        \* Tool B: the file system and the tmux binary
    args,       \* Tool B: the command line
    validator,  \* Tool B: the TmuxConfigValidator object
    ret,        \* Tool B: what the last validate() call returned
    calls,      \* Tool B: the number of validate() calls made
    done,       \* Tool B: the checks applied to the validator one by one
    proc,       \* Tool B: the process running main
    diff_summary, \* Tool A: the DiffSummary given to determine_commit_type
    type_ret,   \* Tool A: what determine_commit_type returned
    changed,    \* Tool A: the files_changed given to get_scope
    scope_ret,  \* Tool A: what get_scope returned
    body_ret,   \* Tool A: what generate_body returned
    cli,        \* Tool A: the command line
    git,        \* Tool A: the outcomes of the git invocations
    procA       \* Tool A: the process running main

toolB == <<env, args, validator, ret, calls, done, proc>>
toolA == <<diff_summary, type_ret, changed, scope_ret, body_ret, cli, git, procA>>
vars == <<toolB, toolA>>

(***************************************************************************)
(* Bounds                                                                  *)
(***************************************************************************)
MaxLines == 3
MaxCalls == 2
MaxMainLines == 2
MaxPermLines == 2
MaxAdditions == 11
MaxFiles == 3
MaxDiffLines == 2
MaxBodyFiles == 12
MaxBodyCount == 52

(***************************************************************************)
(* The line vocabulary                                                     *)
(***************************************************************************)
L_blank   == << >>
L_comment == <<"#", "bind-key", "C-a", "send-prefix">>
L_bindA1  == <<"bind-key", "C-a", "send-prefix">>
L_bindA2  == <<"bind", "-r", "C-a", "last-window">>
L_bindB   == <<"bind", "C-b", "'split-window">>
L_typo    == <<"unbind-keys", "C-z">>
L_depr    == <<"set-option", "-g", "mouse-utf8", "on">>
L_color   == <<"set", "-g", "status-style", "fg=purple">>
L_source  == <<"source-file", "~/missing.conf">>

LineVocab == {L_blank, L_comment, L_bindA1, L_bindA2, L_bindB, L_typo,
              L_depr, L_color, L_source}

\* all sequences over S of length at most n
SeqsUpTo(S, n) == UNION {[1..k -> S] : k \in 0..n}

(***************************************************************************)
(* ValidationLevel, ValidationIssue                                        *)
(***************************************************************************)
ValidationLevel == {"ERROR", "WARNING", "INFO"}

\* message = template + interpolated value, suggestion = template +
\* interpolated value + interpolated line number (0 when there is none)
ValidationIssue(level, line_number, message, marg, line_content, suggestion, sarg, sline) ==
    [level |-> level, line_number |-> line_number,
     message |-> message, marg |-> marg,
     line_content |-> line_content,
     suggestion |-> suggestion, sarg |-> sarg, sline |-> sline]

\* "needle in tok" for needle # tok, over the token vocabulary
Substrings == {<<"bind-keys", "unbind-keys">>}

\* Python's  s in stripped  for a string s without white space
Contains(stripped, s) ==
    \E j \in 1..Len(stripped) : stripped[j] = s \/ <<s, stripped[j]>> \in Substrings

\* not stripped or stripped.startswith('#')
Skipped(stripped) == stripped = << >> \/ stripped[1] = "#"

\* concatenation of f[1](..) .. over a sequence of sequences
RECURSIVE Flatten(_)
Flatten(ss) == IF ss = << >> THEN << >> ELSE Head(ss) \o Flatten(Tail(ss))

(***************************************************************************)
(* _has_unclosed_quotes                                                    *)
(***************************************************************************)
\* number of ' and of " in a token once \" and \' are removed
SingleQuotes(tok) == IF tok = "'split-window" THEN 1 ELSE 0
DoubleQuotes(tok) == 0

RECURSIVE CountQuotes(_, _)
CountQuotes(line, single) ==
    IF line = << >> THEN 0
    ELSE (IF single THEN SingleQuotes(Head(line)) ELSE DoubleQuotes(Head(line)))
         + CountQuotes(Tail(line), single)

has_unclosed_quotes(line) ==
    CountQuotes(line, TRUE) % 2 # 0 \/ CountQuotes(line, FALSE) % 2 # 0

(***************************************************************************)
(* _check_syntax                                                           *)
(***************************************************************************)
typos == << <<"set-window-opton", "set-window-option">>,
            <<"set-opton", "set-option">>,
            <<"bind-keys", "bind-key">>,
            <<"unbind-keys", "unbind-key">>,
            <<"set-envionment", "set-environment">> >>

SyntaxIssuesOfLine(i, line) ==
    IF Skipped(line) THEN << >>
    ELSE (IF has_unclosed_quotes(line)
          THEN <<ValidationIssue("ERROR", i, "Unclosed quotes detected", "", line,
                                 "Ensure all quotes are properly closed", "", 0)>>
          ELSE << >>)
         \o Flatten([t \in 1..Len(typos) |->
                IF Contains(line, typos[t][1])
                THEN <<ValidationIssue("ERROR", i, "Possible typo", typos[t][1], line,
                                       "Did you mean", typos[t][2], 0)>>
                ELSE << >>])

check_syntax(self, lines) ==
    [self EXCEPT !.issues = @ \o Flatten([i \in 1..Len(lines) |-> SyntaxIssuesOfLine(i, lines[i])])]

(***************************************************************************)
(* _check_keybinding_conflicts                                             *)
(***************************************************************************)
\* tokens matching -[rnx]+
FlagClusters == {"-r", "-n", "-x", "-rn"}

\* bind_pattern.match(stripped)
BindMatches(line) == Len(line) >= 2 /\ line[1] \in {"bind-key", "bind"}

\* match.group(3)
BindKey(line) ==
    IF line[2] \in FlagClusters /\ Len(line) >= 3 THEN line[3] ELSE line[2]

RECURSIVE KeybindingLoop(_, _, _)
KeybindingLoop(self, lines, i) ==
    IF i > Len(lines) THEN self
    ELSE LET line == lines[i] IN
         IF Skipped(line) \/ ~BindMatches(line) THEN KeybindingLoop(self, lines, i + 1)
         ELSE LET key == BindKey(line) IN
              IF key \in DOMAIN self.keybindings
              THEN KeybindingLoop(
                     [self EXCEPT !.issues = Append(@,
                         ValidationIssue("WARNING", i, "Duplicate key binding", key, line,
                                         "Previously defined at line", "", self.keybindings[key]))],
                     lines, i + 1)
              ELSE KeybindingLoop(
                     [self EXCEPT !.keybindings =
                         [k \in DOMAIN @ \cup {key} |-> IF k = key THEN i ELSE @[k]]],
                     lines, i + 1)

check_keybinding_conflicts(self, lines) == KeybindingLoop(self, lines, 1)

(***************************************************************************)
(* _check_deprecated_options                                               *)
(***************************************************************************)
\* old option, replacement ("" stands for None: removed entirely)
deprecated == << <<"mode-mouse", "mouse">>,
                 <<"mouse-resize-pane", "mouse">>,
                 <<"mouse-select-pane", "mouse">>,
                 <<"mouse-select-window", "mouse">>,
                 <<"mouse-utf8", "">>,
                 <<"default-command", "">> >>

\* a mutant: the lines are numbered from 0
DeprecatedIssuesOfLine_zero_based(i, line) ==
    IF Skipped(line) THEN << >>
    ELSE Flatten([d \in 1..Len(deprecated) |->
            IF Contains(line, deprecated[d][1])
            THEN <<ValidationIssue("WARNING", i - 1, "Deprecated option", deprecated[d][1], line,
                       IF deprecated[d][2] # "" THEN "Use instead" ELSE "This option has been removed",
                       deprecated[d][2], 0)>>
            ELSE << >>])

DeprecatedIssuesOfLine(i, line) ==
    IF Skipped(line) THEN << >>
    ELSE Flatten([d \in 1..Len(deprecated) |->
            IF Contains(line, deprecated[d][1])
            THEN <<ValidationIssue("WARNING", i, "Deprecated option", deprecated[d][1], line,
                       IF deprecated[d][2] # "" THEN "Use instead" ELSE "This option has been removed",
                       deprecated[d][2], 0)>>
            ELSE << >>])

check_deprecated_options(self, lines) ==
    [self EXCEPT !.issues = @ \o Flatten([i \in 1..Len(lines) |-> DeprecatedIssuesOfLine(i, lines[i])])]

(***************************************************************************)
(* _check_color_values                                                     *)
(***************************************************************************)
valid_colors == {"black", "red", "green", "yellow", "blue", "magenta", "cyan", "white",
                 "brightblack", "brightred", "brightgreen", "brightyellow",
                 "brightblue", "brightmagenta", "brightcyan", "brightwhite",
                 "default", "terminal"}

\* the second groups of color_pattern.findall over one token
ColorMatches(tok) ==
    CASE tok = "fg=purple"   -> <<"purple">>
      [] tok = "fg=red"      -> <<"red">>
      [] tok = "bg=colour12" -> <<"colour12">>
      [] tok = "bg=#1a2B3c"  -> <<"#1a2B3c">>
      [] OTHER               -> << >>

\* color.startswith('colour') or color.startswith('color')
HasColourPrefix(color) == color \in {"colour12"}
\* re.match(r'^#[0-9a-fA-F]{6}$', color)
IsHexColor(color) == color \in {"#1a2B3c"}

ColorIssuesOfLine(i, line) ==
    IF Skipped(line) THEN << >>
    ELSE LET matches == Flatten([j \in 1..Len(line) |-> ColorMatches(line[j])]) IN
         Flatten([m \in 1..Len(matches) |->
            IF ~(matches[m] \in valid_colors \/ HasColourPrefix(matches[m]) \/ IsHexColor(matches[m]))
            THEN <<ValidationIssue("WARNING", i, "Invalid color value", matches[m], line,
                       "Use valid color name, 'colour0-255', or hex code '#RRGGBB'", "", 0)>>
            ELSE << >>])

\* a mutant: the check gives up when an earlier check has found something
check_color_values_after_clean(self, lines) ==
    IF self.issues # << >> THEN self
    ELSE [self EXCEPT !.issues = @ \o Flatten([i \in 1..Len(lines) |-> ColorIssuesOfLine(i, lines[i])])]

check_color_values(self, lines) ==
    [self EXCEPT !.issues = @ \o Flatten([i \in 1..Len(lines) |-> ColorIssuesOfLine(i, lines[i])])]

(***************************************************************************)
(* _check_paths                                                            *)
(***************************************************************************)
\* source_pattern.match(stripped)
SourceMatches(line) == Len(line) >= 2 /\ line[1] \in {"source", "source-file"}

\* .strip().strip('"').strip("'") followed by expandvars and expanduser
ExpandPath(tok) ==
    CASE tok = "~/missing.conf"     -> "/home/user/missing.conf"
      [] tok = "'~/missing.conf'"   -> "/home/user/missing.conf"
      [] OTHER                      -> tok

IsAbsolute(path_str) == path_str \in {"/home/user/missing.conf"}

\* config_path.parent
Parent(config_path) ==
    CASE config_path = "/tmp/test.conf"                              -> "/tmp"
      [] config_path = "/home/user/.tmux.conf"                       -> "/home/user"
      [] config_path = "/home/user/.config/tmux/tmux.conf"           -> "/home/user/.config/tmux"
      [] config_path = "/Users/daisuke.oda/dotfiles/tmux/tmux.conf"  -> "/Users/daisuke.oda/dotfiles/tmux"
      [] OTHER                                                       -> "."

\* the path whose existence is tested: directory it is relative to, and name
ResolvePath(self, path_str) ==
    IF IsAbsolute(path_str) THEN [dir |-> "/", name |-> path_str]
    ELSE [dir |-> Parent(self.config_path), name |-> path_str]

PathIssuesOfLine(self, i, line, existing) ==
    IF Skipped(line) \/ ~SourceMatches(line) THEN << >>
    ELSE LET path_str == ExpandPath(line[2]) IN
         IF ResolvePath(self, path_str) \notin existing
         THEN <<ValidationIssue("ERROR", i, "Source file not found", path_str, line,
                    "Check that the file exists and path is correct", "", 0)>>
         ELSE << >>

check_paths(self, lines, existing) ==
    [self EXCEPT !.issues = @ \o Flatten([i \in 1..Len(lines) |-> PathIssuesOfLine(self, i, lines[i], existing)])]

(***************************************************************************)
(* _validate_with_tmux                                                     *)
(***************************************************************************)
\* a line of the binary's error output: its text and the N of its first
\* 'line N:' token (NoToken when it has none)
NoToken == -1
E_server == [text |-> "server exited unexpectedly", token |-> NoToken]
E_line2  == [text |-> "/tmp/test.conf: line 2: unknown command", token |-> 2]
E_plain  == [text |-> "no current session", token |-> NoToken]
E_empty  == [text |-> "", token |-> NoToken]

\* result.stderr.strip().split('\n'): the empty output splits into ['']
SplitStderr(stderr) == IF stderr = << >> THEN <<E_empty>> ELSE stderr

\* error.startswith('server exited')
StartsWithServerExited(error) == error.text \in {"server exited unexpectedly"}

TmuxErrorIssues(error) ==
    IF error.text # "" /\ ~StartsWithServerExited(error)
    THEN <<ValidationIssue("ERROR", IF error.token # NoToken THEN error.token ELSE 0,
                           "tmux validation error", "", << >>, error.text, "", 0)>>
    ELSE << >>

\* tmux: the outcome of subprocess.run
TmuxIssues(tmux) ==
    CASE tmux.kind = "exit" ->
            IF tmux.returncode # 0
            THEN LET error_lines == SplitStderr(tmux.stderr) IN
                 Flatten([e \in 1..Len(error_lines) |-> TmuxErrorIssues(error_lines[e])])
            ELSE << >>
      [] tmux.kind = "timeout" ->
            <<ValidationIssue("WARNING", 0, "tmux validation timeout", "", << >>,
                  "Config validation took too long, might have blocking commands", "", 0)>>
      [] tmux.kind = "notfound" ->
            <<ValidationIssue("INFO", 0, "tmux not found in PATH", "", << >>,
                  "Install tmux to enable full validation", "", 0)>>
      [] OTHER ->
            <<ValidationIssue("WARNING", 0, "Could not validate with tmux", tmux.kind, << >>,
                  "Syntax validation only, runtime validation skipped", "", 0)>>

\* a mutant: the live check replaces the issue list
validate_with_tmux_replacing(self, tmux) == [self EXCEPT !.issues = TmuxIssues(tmux)]

validate_with_tmux(self, tmux) == [self EXCEPT !.issues = @ \o TmuxIssues(tmux)]

(***************************************************************************)
(* The environment of Tool B: the file system and the tmux binary          *)
(***************************************************************************)
None == ""
ExplicitPath == "/tmp/test.conf"

\* _find_config_file: possible_paths, in search order
possible_paths == <<"/home/user/.tmux.conf",
                    "/home/user/.config/tmux/tmux.conf",
                    "/Users/daisuke.oda/dotfiles/tmux/tmux.conf">>

ConfigPaths == {ExplicitPath} \cup {possible_paths[p] : p \in 1..Len(possible_paths)}

\* absent: path.exists() is false; unreadable: it exists and open() raises;
\* ok: open() succeeds
FileStatus == {"absent", "unreadable", "ok"}

SourceTargets == {[dir |-> "/", name |-> "/home/user/missing.conf"]}

TmuxOutcomes ==
    {[kind |-> "exit", returncode |-> c, stderr |-> e] :
        c \in {0, 1}, e \in {<<E_server>>, <<E_line2, E_plain>>}}
    \cup {[kind |-> k, returncode |-> 0, stderr |-> << >>] :
        k \in {"timeout", "notfound", "oserror"}}

(***************************************************************************)
(* TmuxConfigValidator                                                     *)
(***************************************************************************)
EmptyTable == [k \in {} |-> 0]

NoValidator == [config_path |-> None, issues |-> << >>,
                keybindings |-> EmptyTable, options |-> EmptyTable]

\* _find_config_file: the first existing path, None when it raises
RECURSIVE FindFrom(_, _)
FindFrom(status, p) ==
    IF p > Len(possible_paths) THEN None
    ELSE IF status[possible_paths[p]] # "absent" THEN possible_paths[p]
    ELSE FindFrom(status, p + 1)

find_config_file(status) == FindFrom(status, 1)

\* __init__: [raised, self]
init(config_path, status) ==
    LET path == IF config_path # None THEN config_path ELSE find_config_file(status) IN
    IF path = None
    THEN [raised |-> TRUE, self |-> NoValidator]
    ELSE [raised |-> FALSE,
          self |-> [config_path |-> path, issues |-> << >>,
                    keybindings |-> EmptyTable, options |-> EmptyTable]]

CannotReadIssue(e) ==
    ValidationIssue("ERROR", 0, "Cannot read config file", e, << >>,
                    "Check file permissions and path", "", 0)

\* the checks of validate, in the order validate calls them
NChecks == 6
RunCheck(c, self, e) ==
    CASE c = 1 -> check_syntax(self, e.lines)
      [] c = 2 -> check_keybinding_conflicts(self, e.lines)
      [] c = 3 -> check_deprecated_options(self, e.lines)
      [] c = 4 -> check_color_values(self, e.lines)
      [] c = 5 -> check_paths(self, e.lines, e.existing)
      [] OTHER -> validate_with_tmux(self, e.tmux)

RECURSIVE RunChecks(_, _, _)
RunChecks(order, self, e) ==
    IF order = << >> THEN self
    ELSE RunChecks(Tail(order), RunCheck(Head(order), self, e), e)

\* a mutant: the read failure is reported and the checks run all the same
validate_without_return(self, e) ==
    LET cleared == [self EXCEPT !.issues = << >>] IN
    IF e.status[self.config_path] # "ok"
    THEN RunChecks(<<1, 2, 3, 4, 5, 6>>,
                   [cleared EXCEPT !.issues = <<CannotReadIssue(e.status[self.config_path])>>], e)
    ELSE RunChecks(<<1, 2, 3, 4, 5, 6>>, cleared, e)

\* validate: the validator after the call; the call returns its issues
validate(self, e) ==
    LET cleared == [self EXCEPT !.issues = << >>] IN
    IF e.status[self.config_path] # "ok"
    THEN [cleared EXCEPT !.issues = <<CannotReadIssue(e.status[self.config_path])>>]
    ELSE RunChecks(<<1, 2, 3, 4, 5, 6>>, cleared, e)

(***************************************************************************)
(* print_report, main                                                      *)
(***************************************************************************)
OfLevel(issues, level) == SelectSeq(issues, LAMBDA i : i.level = level)

\* a mutant: the groups are printed warnings first
print_report_warnings_first(self) ==
    IF self.issues = << >>
    THEN [kind |-> "no issues", items |-> << >>, summary |-> <<0, 0, 0>>]
    ELSE LET errors   == OfLevel(self.issues, "ERROR")
             warnings == OfLevel(self.issues, "WARNING")
             info     == OfLevel(self.issues, "INFO")
         IN  [kind |-> "report", items |-> warnings \o errors \o info,
              summary |-> <<Len(errors), Len(warnings), Len(info)>>]

print_report(self) ==
    IF self.issues = << >>
    THEN [kind |-> "no issues", items |-> << >>, summary |-> <<0, 0, 0>>]
    ELSE LET errors   == OfLevel(self.issues, "ERROR")
             warnings == OfLevel(self.issues, "WARNING")
             info     == OfLevel(self.issues, "INFO")
         IN  [kind |-> "report", items |-> errors \o warnings \o info,
              summary |-> <<Len(errors), Len(warnings), Len(info)>>]

\* the object main builds for one issue under --json
JsonObject(issue) ==
    [level |-> issue.level, line |-> issue.line_number,
     message |-> issue.message, marg |-> issue.marg,
     content |-> issue.line_content,
     suggestion |-> issue.suggestion, sarg |-> issue.sarg, sline |-> issue.sline]

json_output(issues) ==
    [kind |-> "json", items |-> [k \in 1..Len(issues) |-> JsonObject(issues[k])],
     summary |-> <<0, 0, 0>>]

NoOutput == [kind |-> "none", items |-> << >>, summary |-> <<0, 0, 0>>]

\* a mutant: any issue makes the run fail
exit_status_any_issue(issues) == IF issues # << >> THEN 1 ELSE 0

\* sys.exit(1 if any(i.level == ValidationLevel.ERROR for i in issues) else 0)
exit_status(issues) ==
    IF \E i \in 1..Len(issues) : issues[i].level = "ERROR" THEN 1 ELSE 0

\* main: the process once it has exited
main(a, e) ==
    LET made == init(a.config, e.status) IN
    IF made.raised
    THEN [pc |-> "exited", exit_code |-> 1, stdout |-> NoOutput,
          stderr |-> "Error: No tmux configuration file found",
          issues |-> << >>, validator |-> NoValidator]
    ELSE LET v == validate(made.self, e)
             issues == v.issues
         IN  [pc |-> "exited",
              exit_code |-> exit_status(issues),
              stdout |-> IF a.json THEN json_output(issues) ELSE print_report(v),
              stderr |-> "",
              issues |-> issues, validator |-> v]

NotStarted == [pc |-> "start", exit_code |-> 0, stdout |-> NoOutput, stderr |-> "",
               issues |-> << >>, validator |-> NoValidator]

(***************************************************************************)
(* Tool A.  A changed path is the sequence of its components, the result   *)
(* of file_path.split('/'); directory components of the vocabulary hold no *)
(* dot.  The git diff output is the sequence of its lines, each with its   *)
(* kind, the path of a 'diff --git' header, and the topical patterns whose *)
(* regular expression finds a match in the text of the line.               *)
(***************************************************************************)
Patterns == {"test", "docs", "bugfix", "feature", "refactor", "style", "perf", "config", "deps"}

\* a mutant: the feature pattern is looked at before the bugfix pattern
determine_commit_type_feature_first(analysis) ==
    LET patterns == analysis.change_patterns IN
    IF "feature" \in patterns THEN "feat"
    ELSE IF "bugfix" \in patterns THEN "fix"
    ELSE IF "docs" \in patterns THEN "docs"
    ELSE IF "style" \in patterns THEN "style"
    ELSE IF "refactor" \in patterns THEN "refactor"
    ELSE IF "perf" \in patterns THEN "perf"
    ELSE IF "test" \in patterns THEN "test"
    ELSE IF "config" \in patterns THEN "chore"
    ELSE IF "deps" \in patterns THEN "chore"
    ELSE IF analysis.deletions > analysis.additions * 2 THEN "refactor"
    ELSE IF analysis.additions > 10 THEN "feat"
    ELSE "chore"

determine_commit_type(analysis) ==
    LET patterns == analysis.change_patterns IN
    IF "bugfix" \in patterns THEN "fix"
    ELSE IF "feature" \in patterns THEN "feat"
    ELSE IF "docs" \in patterns THEN "docs"
    ELSE IF "style" \in patterns THEN "style"
    ELSE IF "refactor" \in patterns THEN "refactor"
    ELSE IF "perf" \in patterns THEN "perf"
    ELSE IF "test" \in patterns THEN "test"
    ELSE IF "config" \in patterns THEN "chore"
    ELSE IF "deps" \in patterns THEN "chore"
    ELSE IF analysis.deletions > analysis.additions * 2 THEN "refactor"
    ELSE IF analysis.additions > 10 THEN "feat"
    ELSE "chore"

(***************************************************************************)
(* get_scope                                                               *)
(***************************************************************************)
P_src_a   == <<"src", "a.py">>
P_src_b   == <<"src", "b.py">>
P_readme  == <<"README.md">>
P_lib     == <<"Lib", "x.py">>
P_source  == <<"Source", "m.py">>
P_tests   == <<"tests", "t.py">>
P_doc     == <<"Documentation", "conf.yml">>
P_docker  == <<"Dockerfile">>

PathVocab == {P_src_a, P_src_b, P_readme, P_lib, P_source, P_tests, P_doc, P_docker}

\* str.lower()
Lower(s) ==
    CASE s = "Lib"           -> "lib"
      [] s = "Source"        -> "source"
      [] s = "Documentation" -> "documentation"
      [] s = "README.md"     -> "readme.md"
      [] s = "Dockerfile"    -> "dockerfile"
      [] OTHER               -> s

\* '.' in name, and name.split('.')[-1]
HasDot(name) == name \in {"a.py", "b.py", "x.py", "m.py", "t.py", "README.md", "conf.yml"}
LastExt(name) ==
    CASE name \in {"a.py", "b.py", "x.py", "m.py", "t.py"} -> "py"
      [] name = "README.md"                                -> "md"
      [] name = "conf.yml"                                 -> "yml"
      [] OTHER                                             -> name

\* base_name.startswith('dockerfile')
StartsWithDockerfile(base_name) == base_name \in {"dockerfile"}

scope_map_keys == {"source", "sources", "test", "tests", "documentation", "config", "configuration"}
scope_map(k) ==
    CASE k \in {"source", "sources"}       -> "src"
      [] k \in {"test", "tests"}           -> "test"
      [] k = "documentation"               -> "docs"
      [] OTHER                             -> "config"

\* scope_map.get(scope.lower(), scope)
directory_scope(scope) ==
    IF Lower(scope) \in scope_map_keys THEN scope_map(Lower(scope)) ELSE scope

\* the loop over files_changed that checks for specific files
RECURSIVE specific_file_scope(_)
specific_file_scope(files_changed) ==
    IF files_changed = << >> THEN ""
    ELSE LET file_path == Head(files_changed)
             base_name == Lower(file_path[Len(file_path)])
         IN  IF base_name \in {"readme.md", "readme.txt", "readme.rst"} THEN "readme"
             ELSE IF base_name \in {"package.json", "requirements.txt", "pyproject.toml",
                                    "cargo.toml", "go.mod"} THEN "deps"
             ELSE IF StartsWithDockerfile(base_name) THEN "docker"
             ELSE IF base_name \in {".gitignore", ".env", ".env.example"} THEN "config"
             ELSE specific_file_scope(Tail(files_changed))

\* get_scope from "If files have common extensions" on
extension_scope(files_changed) ==
    LET extensions == {LastExt(files_changed[i][Len(files_changed[i])]) :
                          i \in {j \in 1..Len(files_changed) :
                                    HasDot(files_changed[j][Len(files_changed[j])])}}
        ext == CHOOSE x \in extensions : TRUE
    IN  IF Cardinality(extensions) = 1 /\ ext \in {"py", "js", "ts", "go", "rs", "java"} THEN "core"
        ELSE IF Cardinality(extensions) = 1 /\ ext \in {"md", "txt", "rst"} THEN "docs"
        ELSE IF Cardinality(extensions) = 1 /\ ext \in {"yml", "yaml", "json", "toml"} THEN "config"
        ELSE specific_file_scope(files_changed)

get_scope(files_changed) ==
    IF files_changed = << >> THEN ""
    ELSE LET directories == {files_changed[i][1] :
                                i \in {j \in 1..Len(files_changed) : Len(files_changed[j]) > 1}}
         IN  IF Cardinality(directories) = 1
             THEN directory_scope(CHOOSE d \in directories : TRUE)
             ELSE extension_scope(files_changed)

(***************************************************************************)
(* analyze_diff                                                            *)
(***************************************************************************)
NoPath == << >>
D_src_a   == [kind |-> "header", path |-> P_src_a,  topics |-> {}]
D_src_b   == [kind |-> "header", path |-> P_src_b,  topics |-> {}]
D_readme  == [kind |-> "header", path |-> P_readme, topics |-> {"docs"}]
D_addfix  == [kind |-> "add",    path |-> NoPath,   topics |-> {"bugfix"}]
D_addnew  == [kind |-> "add",    path |-> NoPath,   topics |-> {"feature", "test"}]
D_del     == [kind |-> "del",    path |-> NoPath,   topics |-> {}]
D_meta    == [kind |-> "meta",   path |-> NoPath,   topics |-> {}]

DiffLineVocab == {D_src_a, D_src_b, D_readme, D_addfix, D_addnew, D_del, D_meta}

\* the tag analyze_diff adds for a path ("" when it adds none)
FileType(file_path) ==
    LET name == file_path[Len(file_path)] IN
    IF HasDot(name) /\ LastExt(name) = "py" THEN "python"
    ELSE IF HasDot(name) /\ LastExt(name) = "yml" THEN "yaml"
    ELSE IF HasDot(name) /\ LastExt(name) = "md" THEN "markdown"
    ELSE IF name = "Dockerfile" THEN "docker"
    ELSE ""

CountKind(diff_output, kind) ==
    Cardinality({i \in 1..Len(diff_output) : diff_output[i].kind = kind})

analyze_diff(diff_output) ==
    LET headers == SelectSeq(diff_output, LAMBDA l : l.kind = "header")
        files == [i \in 1..Len(headers) |-> headers[i].path]
    IN  [files_changed   |-> files,
         additions       |-> CountKind(diff_output, "add"),
         deletions       |-> CountKind(diff_output, "del"),
         file_types      |-> {FileType(files[i]) : i \in 1..Len(files)} \ {""},
         change_patterns |-> UNION {diff_output[i].topics : i \in 1..Len(diff_output)}]

(***************************************************************************)
(* generate_description, generate_body                                     *)
(***************************************************************************)
\* a description: its template and the value interpolated into it
Description(text, arg) == [text |-> text, arg |-> arg]

generate_description(analysis, commit_type) ==
    LET files_changed == analysis.files_changed
        additions == analysis.additions
        deletions == analysis.deletions
    IN
    IF files_changed = << >> THEN Description("Update files", "")
    ELSE IF Len(files_changed) = 1 THEN
        LET file_name == files_changed[1][Len(files_changed[1])] IN
        CASE commit_type = "fix"      -> Description("Resolve issues in {}", file_name)
          [] commit_type = "feat"     -> IF additions > deletions * 2
                                         THEN Description("Add new functionality to {}", file_name)
                                         ELSE Description("Enhance {}", file_name)
          [] commit_type = "docs"     -> Description("Update documentation in {}", file_name)
          [] commit_type = "style"    -> Description("Format {}", file_name)
          [] commit_type = "refactor" -> Description("Restructure {}", file_name)
          [] commit_type = "test"     -> Description("Add tests for {}", file_name)
          [] commit_type = "perf"     -> Description("Optimize {} performance", file_name)
          [] OTHER                    -> Description("Update {}", file_name)
    ELSE
        CASE commit_type = "fix"      -> Description("Resolve multiple issues", "")
          [] commit_type = "feat"     -> IF Cardinality(analysis.file_types) = 1
                                         THEN Description("Add new {} features",
                                                          CHOOSE t \in analysis.file_types : TRUE)
                                         ELSE Description("Add new functionality", "")
          [] commit_type = "docs"     -> Description("Update documentation", "")
          [] commit_type = "style"    -> Description("Format code", "")
          [] commit_type = "refactor" -> IF deletions > additions
                                         THEN Description("Remove unnecessary code", "")
                                         ELSE Description("Restructure codebase", "")
          [] commit_type = "test"     -> Description("Add test coverage", "")
          [] commit_type = "perf"     -> Description("Improve performance", "")
          [] commit_type = "chore"    -> IF "deps" \in analysis.change_patterns
                                         THEN Description("Update dependencies", "")
                                         ELSE IF "config" \in analysis.change_patterns
                                         THEN Description("Update configuration", "")
                                         ELSE Description("Update project files", "")
          [] OTHER                    -> Description("Update {} files", "")

\* a line of the body: its kind, the path of a file line, the numbers in it
BodyLine(kind, path, n, m) == [kind |-> kind, path |-> path, n |-> n, m |-> m]

\* a mutant: the paths are listed from three files on
generate_body_from_three(analysis) ==
    LET files == analysis.files_changed
        listed == SubSeq(files, 1, IF Len(files) < 10 THEN Len(files) ELSE 10)
    IN  (IF Len(files) >= 3
         THEN <<BodyLine("Modified files:", NoPath, 0, 0)>>
              \o [i \in 1..Len(listed) |-> BodyLine("  - {}", listed[i], 0, 0)]
              \o (IF Len(files) > 10
                  THEN <<BodyLine("  ... and {} more files", NoPath, Len(files) - 10, 0)>>
                  ELSE << >>)
         ELSE << >>)
        \o (IF analysis.additions > 50 \/ analysis.deletions > 50
            THEN <<BodyLine("", NoPath, 0, 0),
                   BodyLine("Changes: +{} -{}", NoPath, analysis.additions, analysis.deletions)>>
            ELSE << >>)

generate_body(analysis) ==
    LET files == analysis.files_changed
        listed == SubSeq(files, 1, IF Len(files) < 10 THEN Len(files) ELSE 10)
    IN  (IF Len(files) > 3
         THEN <<BodyLine("Modified files:", NoPath, 0, 0)>>
              \o [i \in 1..Len(listed) |-> BodyLine("  - {}", listed[i], 0, 0)]
              \o (IF Len(files) > 10
                  THEN <<BodyLine("  ... and {} more files", NoPath, Len(files) - 10, 0)>>
                  ELSE << >>)
         ELSE << >>)
        \o (IF analysis.additions > 50 \/ analysis.deletions > 50
            THEN <<BodyLine("", NoPath, 0, 0),
                   BodyLine("Changes: +{} -{}", NoPath, analysis.additions, analysis.deletions)>>
            ELSE << >>)

(***************************************************************************)
(* run_git_command, main of Tool A                                         *)
(***************************************************************************)
\* run_git_command: result.stdout, or the error printed and SystemExit(1)
run_git_command(command, outcome) ==
    IF outcome.ok
    THEN [exited |-> FALSE, stdout |-> outcome.stdout, printed |-> << >>,
          ran |-> <<command>>]
    ELSE [exited |-> TRUE, stdout |-> << >>, printed |-> <<"Error running git command">>,
          ran |-> <<command>>]

\* a mutant: the except clause lets SystemExit through
default_branch_lookup_fatal(g) ==
    LET r == run_git_command("git symbolic-ref refs/remotes/origin/HEAD", g.symbolic_ref) IN
    [exited |-> r.exited, printed |-> r.printed, ran |-> r.ran]

\* main, "Try to get default branch": the bare except catches the SystemExit
\* of run_git_command
default_branch_lookup(g) ==
    LET r == run_git_command("git symbolic-ref refs/remotes/origin/HEAD", g.symbolic_ref) IN
    [exited |-> FALSE, printed |-> r.printed, ran |-> r.ran]

NoMessage == [kind |-> "none", commit_type |-> "", scope |-> "",
              description |-> Description("", ""), body |-> << >>]

\* the commit message main prints, by args.format; kind says which of
\* capitalize() and lower() is applied to the description
format_message(format, analysis) ==
    LET commit_type == determine_commit_type(analysis)
        scope == get_scope(analysis.files_changed)
        description == generate_description(analysis, commit_type)
        body == generate_body(analysis)
    IN  CASE format = "simple" ->
               [kind |-> "simple", commit_type |-> "", scope |-> "",
                description |-> description, body |-> << >>]
          [] format = "detailed" ->
               [kind |-> "detailed", commit_type |-> "", scope |-> "",
                description |-> description, body |-> body]
          [] OTHER ->
               [kind |-> "conventional", commit_type |-> commit_type, scope |-> scope,
                description |-> description, body |-> body]

\* main of Tool A: the process once it has ended
main_a(c, g) ==
    LET lookup == IF ~c.staged /\ c.branch = None
                  THEN default_branch_lookup(g)
                  ELSE [exited |-> FALSE, printed |-> << >>, ran |-> << >>]
        diff_command == IF c.staged THEN "git diff --cached"
                        ELSE IF c.branch # None THEN "git diff <branch>"
                        ELSE "git diff"
    IN
    IF lookup.exited
    THEN [pc |-> "exited", exit_code |-> 1, stdout |-> "", message |-> NoMessage,
          stderr |-> lookup.printed, invocations |-> lookup.ran]
    ELSE LET r == run_git_command(diff_command, g.diff) IN
         IF r.exited
         THEN [pc |-> "exited", exit_code |-> 1, stdout |-> "", message |-> NoMessage,
               stderr |-> lookup.printed \o r.printed, invocations |-> lookup.ran \o r.ran]
         ELSE IF r.stdout = << >>
         THEN [pc |-> "exited", exit_code |-> 0, stdout |-> "No changes detected",
               message |-> NoMessage,
               stderr |-> lookup.printed, invocations |-> lookup.ran \o r.ran]
         ELSE [pc |-> "exited", exit_code |-> 0, stdout |-> "Generated Commit Message",
               message |-> format_message(c.format, analyze_diff(r.stdout)),
               stderr |-> lookup.printed, invocations |-> lookup.ran \o r.ran]

NotStartedA == [pc |-> "start", exit_code |-> 0, stdout |-> "", message |-> NoMessage,
                stderr |-> << >>, invocations |-> << >>]

\* the value of a result that has not been computed yet
Pending == "(pending)"

NoAnalysis == [files_changed |-> << >>, additions |-> 0, deletions |-> 0,
               file_types |-> {}, change_patterns |-> {}]
\* the body before generate_body has returned
NoBody == <<BodyLine(Pending, NoPath, 0, 0)>>

NoCli == [staged |-> FALSE, branch |-> None, format |-> "conventional"]
NoGit == [symbolic_ref |-> [ok |-> TRUE, stdout |-> << >>],
          diff |-> [ok |-> TRUE, stdout |-> << >>]]

\* Tool A is not used
IdleA ==
    /\ diff_summary = NoAnalysis
    /\ type_ret = Pending
    /\ changed = << >>
    /\ scope_ret = Pending
    /\ body_ret = NoBody
    /\ cli = NoCli
    /\ git = NoGit
    /\ procA = NotStartedA

(***************************************************************************)
(* Environments                                                            *)
(***************************************************************************)
Range(f) == {f[x] : x \in DOMAIN f}

\* the path a validator built from a.config reads (None: the constructor raises)
UsedPath(a, status) == IF a.config # None THEN a.config ELSE find_config_file(status)

\* the configuration file of the run cannot be found or read
CannotLoad(a, e) ==
    IF a.config # None THEN e.status[a.config] # "ok"
    ELSE \/ \A p \in 1..Len(possible_paths) : e.status[possible_paths[p]] = "absent"
         \/ \E p \in 1..Len(possible_paths) :
               /\ e.status[possible_paths[p]] = "unreadable"
               /\ \A q \in 1..(p - 1) : e.status[possible_paths[q]] = "absent"

\* the parts of the environment a run cannot observe are left in one state:
\* the paths the run does not look at are absent, a file that is not read has
\* no content, a source target no line names does not exist
Relevant(a, e) ==
    /\ a.config # None => \A p \in 1..Len(possible_paths) : e.status[possible_paths[p]] = "absent"
    /\ a.config = None => e.status[ExplicitPath] = "absent"
    /\ CannotLoad(a, e) => e.lines = << >> /\ e.tmux = [kind |-> "notfound", returncode |-> 0, stderr |-> << >>]
    /\ L_source \notin Range(e.lines) => e.existing = {}

Envs(a, n) ==
    {e \in [status : [ConfigPaths -> FileStatus], lines : SeqsUpTo(LineVocab, n),
            existing : SUBSET SourceTargets, tmux : TmuxOutcomes] : Relevant(a, e)}

(***************************************************************************)
(* Spec: a validator object, validate() called on it repeatedly            *)
(***************************************************************************)
Init ==
    /\ args = [config |-> ExplicitPath, json |-> FALSE, fix |-> FALSE]
    /\ env \in Envs(args, MaxLines)
    /\ validator = NoValidator
    /\ ret = << >>
    /\ calls = 0
    /\ done = {}
    /\ proc = NotStarted
    /\ IdleA

\* validator = TmuxConfigValidator(config)
Construct ==
    /\ validator = NoValidator
    /\ LET made == init(args.config, env.status) IN
          /\ ~made.raised
          /\ validator' = made.self
    /\ UNCHANGED <<env, args, ret, calls, done, proc, toolA>>

\* ret = validator.validate()
Validate ==
    /\ validator # NoValidator
    /\ calls < MaxCalls
    /\ validator' = validate(validator, env)
    /\ ret' = validator'.issues
    /\ calls' = calls + 1
    /\ UNCHANGED <<env, args, done, proc, toolA>>

Next == Construct \/ Validate

Spec == Init /\ [][Next]_vars

(***************************************************************************)
(* SpecMain: one run of the command line of Tool B                         *)
(***************************************************************************)
InitMain ==
    /\ args \in [config : {None, ExplicitPath}, json : BOOLEAN, fix : BOOLEAN]
    /\ env \in Envs(args, MaxMainLines)
    /\ validator = NoValidator
    /\ ret = << >>
    /\ calls = 0
    /\ done = {}
    /\ proc = NotStarted
    /\ IdleA

Main ==
    /\ proc.pc = "start"
    /\ proc' = main(args, env)
    /\ UNCHANGED <<env, args, validator, ret, calls, done, toolA>>

NextMain == Main

SpecMain == InitMain /\ [][NextMain]_vars

(***************************************************************************)
(* SpecPerm: the six checks applied to a fresh validator in any order      *)
(***************************************************************************)
InitPerm ==
    /\ args = [config |-> ExplicitPath, json |-> FALSE, fix |-> FALSE]
    /\ env \in {e \in Envs(args, MaxPermLines) : e.status[ExplicitPath] = "ok"}
    /\ validator = init(args.config, env.status).self
    /\ ret = << >>
    /\ calls = 0
    /\ done = {}
    /\ proc = NotStarted
    /\ IdleA

\* one of the checks not applied yet is applied to the validator
ApplyCheck ==
    /\ \E c \in (1..NChecks) \ done :
          /\ validator' = RunCheck(c, validator, env)
          /\ done' = done \cup {c}
    /\ UNCHANGED <<env, args, ret, calls, proc, toolA>>

NextPerm == ApplyCheck

SpecPerm == InitPerm /\ [][NextPerm]_vars

(***************************************************************************)
(* Tool B: properties                                                      *)
(***************************************************************************)
HasError(issues) == \E i \in 1..Len(issues) : issues[i].level = "ERROR"
HasLevel(issues, level) == \E i \in 1..Len(issues) : issues[i].level = level

\* C1: the exit status of Tool B is 1 exactly when the issue list validate()
\* returned holds an ERROR issue or the configuration could not be loaded, and
\* is 0 otherwise, in text mode and in --json mode.
C1_ExitStatus ==
    proc.pc = "exited" =>
        /\ proc.exit_code \in {0, 1}
        /\ proc.exit_code = 1 <=> (HasError(proc.issues) \/ CannotLoad(args, env))

\* C1 witness: a --json run over a readable file whose issues hold an ERROR
\* and a WARNING has exited with status 1
C1_Witness ==
    /\ proc.pc = "exited" /\ args.json /\ ~CannotLoad(args, env)
    /\ HasError(proc.issues) /\ HasLevel(proc.issues, "WARNING")
    /\ proc.exit_code = 1

\* the lines of the file that bind a key, and the key token they bind
Binds(lines, i) == ~Skipped(lines[i]) /\ BindMatches(lines[i])
FirstBinding(lines, key) ==
    CHOOSE i \in 1..Len(lines) :
        /\ Binds(lines, i) /\ BindKey(lines[i]) = key
        /\ \A j \in 1..(i - 1) : ~(Binds(lines, j) /\ BindKey(lines[j]) = key)
DuplicateIssues(issues, i) ==
    SelectSeq(issues, LAMBDA x : x.message = "Duplicate key binding" /\ x.line_number = i)

KeybindingIssuesAsClaimed(lines, issues) ==
    \A i \in 1..Len(lines) :
        Binds(lines, i) =>
            LET first == FirstBinding(lines, BindKey(lines[i]))
                dup == DuplicateIssues(issues, i)
            IN  IF i = first THEN dup = << >>
                ELSE /\ Len(dup) = 1
                     /\ dup[1].level = "WARNING"
                     /\ dup[1].sline = first

\* C2: in the list a validate() call returns, the first non-comment line that
\* binds a key token has no duplicate-binding issue, and every later line
\* binding the same token has exactly one WARNING citing the line of the first
\* binding.
C2_FirstBindingSilent ==
    (calls >= 1 /\ env.status[ExplicitPath] = "ok") => KeybindingIssuesAsClaimed(env.lines, ret)

\* The statement of C2 holds of the first validate() call on a validator.
C2_OnFirstCall ==
    (calls = 1 /\ env.status[ExplicitPath] = "ok") => KeybindingIssuesAsClaimed(env.lines, ret)

\* C3: every validate() call after the first on the same validator, over the
\* unchanged file, returns the list the call before it returned.
C3_ValidateRepeatable ==
    [][(calls >= 1 /\ calls' = calls + 1) => ret' = ret]_vars

\* C8 (as amended): when the file cannot be found or read the run exits with
\* status 1; if a path was given or the default search found a file, exactly
\* one ERROR issue with line number 0 is reported, no check has run and the
\* key-binding table is empty; if the default search found no file, no issue
\* is reported at all and the error is printed on the error stream.
C8_LoadFailure ==
    (proc.pc = "exited" /\ CannotLoad(args, env)) =>
        /\ proc.exit_code = 1
        /\ IF UsedPath(args, env.status) # None
           THEN /\ Len(proc.issues) = 1
                /\ proc.issues[1].level = "ERROR"
                /\ proc.issues[1].line_number = 0
                /\ proc.validator.keybindings = EmptyTable
                /\ Len(proc.stdout.items) = 1
                /\ proc.stdout.items[1].level = "ERROR"
           ELSE /\ proc.issues = << >>
                /\ proc.stdout = NoOutput
                /\ proc.stderr # ""

\* C8 witness: the default search found a file that cannot be read, and the
\* run reported the one issue
C8_Witness ==
    /\ proc.pc = "exited" /\ CannotLoad(args, env)
    /\ args.config = None /\ UsedPath(args, env.status) # None
    /\ Len(proc.issues) = 1

\* C8 (as claimed): whenever the file cannot be found or read, with a path
\* given or with the default search, exactly one ERROR issue with line number 0
\* is reported, and the exit status is 1.
C8_AsClaimed ==
    (proc.pc = "exited" /\ CannotLoad(args, env)) =>
        /\ proc.exit_code = 1
        /\ Len(proc.issues) = 1
        /\ proc.issues[1].level = "ERROR"
        /\ proc.issues[1].line_number = 0

\* the error lines of a failed tmux run that are reported
Reportable(tmux) ==
    SelectSeq(SplitStderr(tmux.stderr),
              LAMBDA error : error.text # "" /\ ~StartsWithServerExited(error))

\* what the live check appends, by outcome; some: a non-zero exit appends at
\* least one issue
LiveIssuesAre(tmux, live, some) ==
    CASE tmux.kind = "exit" /\ tmux.returncode = 0 -> live = << >>
      [] tmux.kind = "exit" /\ tmux.returncode # 0 ->
            LET rep == Reportable(tmux) IN
            /\ Len(live) = Len(rep)
            /\ some => Len(live) >= 1
            /\ \A k \in 1..Len(live) :
                  /\ live[k].level = "ERROR"
                  /\ live[k].line_number = IF rep[k].token # NoToken THEN rep[k].token ELSE 0
      [] tmux.kind = "timeout"  -> Len(live) = 1 /\ live[1].level = "WARNING"
      [] tmux.kind = "notfound" -> Len(live) = 1 /\ live[1].level = "INFO"
      [] OTHER                  -> Len(live) = 1 /\ live[1].level = "WARNING"

\* a validate() call over a readable file returns the issues of the five
\* static checks followed by the issues of the live check
LiveCheckStep(some) ==
    (calls' = calls + 1 /\ env.status[ExplicitPath] = "ok") =>
        LET static == RunChecks(<<1, 2, 3, 4, 5>>, [validator EXCEPT !.issues = << >>], env).issues
        IN  /\ Len(ret') >= Len(static)
            /\ SubSeq(ret', 1, Len(static)) = static
            /\ LiveIssuesAre(env.tmux, SubSeq(ret', Len(static) + 1, Len(ret')), some)

\* C9 (as amended): validate() returns for every outcome of the tmux run, the
\* issues of the five static checks are kept, a zero exit appends nothing, a
\* non-zero exit appends one ERROR for each non-empty error line that does not
\* start with 'server exited' (none when there is no such line), with the
\* line number of its 'line N:' token, else 0; a timeout appends one WARNING, a
\* missing binary one INFO, any other failure one WARNING.
C9_LiveCheck == [][LiveCheckStep(FALSE)]_vars

\* C9 witness: tmux exited non-zero and validate() returned no tmux issue
C9_Witness ==
    /\ calls >= 1 /\ env.status[ExplicitPath] = "ok"
    /\ env.tmux.kind = "exit" /\ env.tmux.returncode # 0
    /\ \A i \in 1..Len(ret) : ret[i].message # "tmux validation error"

\* C9 (as claimed): the same, and a non-zero exit is reported by at least one
\* ERROR issue.
C9_AsClaimed == [][LiveCheckStep(TRUE)]_vars

\* C4: once the six checks have been applied to a fresh validator, in any
\* order, its issues are, as a set, the issues validate() returns.
C4_OrderInsensitive ==
    done = 1..NChecks =>
        Range(validator.issues) = Range(validate(init(args.config, env.status).self, env).issues)

\* C4 witness: the checks were applied in an order that gave another list than
\* validate() gives, with a duplicate-binding issue and a tmux issue in it
C4_Witness ==
    /\ done = 1..NChecks
    /\ validator.issues # validate(init(args.config, env.status).self, env).issues
    /\ \E i \in 1..Len(validator.issues) : validator.issues[i].message = "Duplicate key binding"
    /\ \E i \in 1..Len(validator.issues) : validator.issues[i].message = "tmux validation error"

(***************************************************************************)
(* Tool A: specifications                                                  *)
(***************************************************************************)
\* Tool B is not used
IdleB ==
    /\ env = [status |-> [p \in ConfigPaths |-> "absent"], lines |-> << >>,
              existing |-> {}, tmux |-> [kind |-> "notfound", returncode |-> 0, stderr |-> << >>]]
    /\ args = [config |-> None, json |-> FALSE, fix |-> FALSE]
    /\ validator = NoValidator
    /\ ret = << >>
    /\ calls = 0
    /\ done = {}
    /\ proc = NotStarted

\* the sequences over S of length at most n without a repeated element
DistinctSeqsUpTo(S, n) ==
    {q \in SeqsUpTo(S, n) : \A i, j \in 1..Len(q) : i # j => q[i] # q[j]}

\* SpecType: determine_commit_type applied to a DiffSummary
InitType ==
    /\ IdleB
    /\ diff_summary \in [files_changed : {<< >>}, additions : 0..MaxAdditions,
                     deletions : 0..(2 * MaxAdditions + 1),
                     file_types : {{}}, change_patterns : SUBSET Patterns]
    /\ type_ret = Pending
    /\ changed = << >> /\ scope_ret = Pending /\ body_ret = NoBody
    /\ cli = NoCli /\ git = NoGit /\ procA = NotStartedA

DetermineCommitType ==
    /\ type_ret = Pending
    /\ type_ret' = determine_commit_type(diff_summary)
    /\ UNCHANGED <<toolB, diff_summary, changed, scope_ret, body_ret, cli, git, procA>>

NextType == DetermineCommitType

SpecType == InitType /\ [][NextType]_vars

\* SpecScope: get_scope applied to the changed paths of a diff
InitScope ==
    /\ IdleB
    /\ changed \in DistinctSeqsUpTo(PathVocab, MaxFiles)
    /\ scope_ret = Pending
    /\ diff_summary = NoAnalysis /\ type_ret = Pending /\ body_ret = NoBody
    /\ cli = NoCli /\ git = NoGit /\ procA = NotStartedA

GetScope ==
    /\ scope_ret = Pending
    /\ scope_ret' = get_scope(changed)
    /\ UNCHANGED <<toolB, diff_summary, type_ret, changed, body_ret, cli, git, procA>>

NextScope == GetScope

SpecScope == InitScope /\ [][NextScope]_vars

\* SpecGit: one run of the command line of Tool A
DiffOutputs ==
    {d \in SeqsUpTo(DiffLineVocab, MaxDiffLines) : d # << >> => d[1].kind = "header"}

InitGit ==
    /\ IdleB
    /\ cli \in [staged : BOOLEAN, branch : {None, "develop"},
                format : {"conventional", "simple", "detailed"}]
    /\ git \in [symbolic_ref : {[ok |-> b, stdout |-> << >>] : b \in BOOLEAN},
                diff : {[ok |-> TRUE, stdout |-> d] : d \in DiffOutputs}
                       \cup {[ok |-> FALSE, stdout |-> << >>]}]
    /\ procA = NotStartedA
    /\ diff_summary = NoAnalysis /\ type_ret = Pending
    /\ changed = << >> /\ scope_ret = Pending /\ body_ret = NoBody

MainA ==
    /\ procA.pc = "start"
    /\ procA' = main_a(cli, git)
    /\ UNCHANGED <<toolB, diff_summary, type_ret, changed, scope_ret, body_ret, cli, git>>

NextGit == MainA

SpecGit == InitGit /\ [][NextGit]_vars

\* SpecBody: generate_body applied to a DiffSummary.  The changed paths are
\* the first n of a list of distinct paths, in diff order.
BodyPath(k) == <<"src", "f" \o ToString(k) \o ".py">>

InitBody ==
    /\ IdleB
    /\ \E n \in 0..MaxBodyFiles, a \in 0..MaxBodyCount, d \in 0..MaxBodyCount :
          diff_summary = [files_changed |-> [k \in 1..n |-> BodyPath(k)],
                          additions |-> a, deletions |-> d,
                          file_types |-> {}, change_patterns |-> {}]
    /\ body_ret = NoBody
    /\ type_ret = Pending /\ changed = << >> /\ scope_ret = Pending
    /\ cli = NoCli /\ git = NoGit /\ procA = NotStartedA

GenerateBody ==
    /\ body_ret = NoBody
    /\ body_ret' = generate_body(diff_summary)
    /\ UNCHANGED <<toolB, diff_summary, type_ret, changed, scope_ret, cli, git, procA>>

NextBody == GenerateBody

SpecBody == InitBody /\ [][NextBody]_vars

(***************************************************************************)
(* Tool A: properties                                                      *)
(***************************************************************************)
\* the precedence list of the classifier and the type of each pattern
Priority == <<"bugfix", "feature", "docs", "style", "refactor", "perf", "test", "config", "deps">>
TypeOfPattern(p) ==
    CASE p = "bugfix"            -> "fix"
      [] p = "feature"           -> "feat"
      [] p \in {"config", "deps"} -> "chore"
      [] OTHER                   -> p

TypeByPriority(a) ==
    IF \E k \in 1..Len(Priority) : Priority[k] \in a.change_patterns
    THEN LET k == CHOOSE i \in 1..Len(Priority) :
                     /\ Priority[i] \in a.change_patterns
                     /\ \A j \in 1..(i - 1) : Priority[j] \notin a.change_patterns
         IN  TypeOfPattern(Priority[k])
    ELSE IF a.deletions > 2 * a.additions THEN "refactor"
    ELSE IF a.additions > 10 THEN "feat"
    ELSE "chore"

\* C5: determine_commit_type returns the type of the detected pattern that
\* comes first in bugfix > feature > docs > style > refactor > perf > test >
\* config > deps, whatever else is detected; with no pattern, refactor if
\* deletions > 2 * additions, else feat if additions > 10, else chore.
C5_CommitTypePriority ==
    type_ret # Pending =>
        /\ type_ret = TypeByPriority(diff_summary)
        /\ "bugfix" \in diff_summary.change_patterns => type_ret = "fix"

\* C5 witness: bugfix detected together with feature and deps in a large
\* addition, classified fix
C5_Witness ==
    /\ type_ret = "fix"
    /\ {"bugfix", "feature", "deps"} \subseteq diff_summary.change_patterns
    /\ diff_summary.additions > 10

\* every changed path has a directory component and all have the same first one
AllShareTopDirectory(fs) ==
    /\ fs # << >>
    /\ \A i \in 1..Len(fs) : Len(fs[i]) > 1 /\ fs[i][1] = fs[1][1]

\* C6: get_scope answers by the directory rule only when every changed path
\* shares one top-level directory; when a path is a root-level file or lies in
\* another top-level directory the answer is that of the extension rule and
\* what follows it; src/a.py with src/b.py gives src.
C6_DirectoryRule ==
    scope_ret # Pending =>
        /\ (changed # << >> /\ ~AllShareTopDirectory(changed)) => scope_ret = extension_scope(changed)
        /\ changed = <<P_src_a, P_src_b>> => scope_ret = "src"

\* the synonym table as the claim gives it
ClaimedSynonym(low) ==
    CASE low \in {"source", "sources"} -> "src"
      [] low \in {"test", "tests"}     -> "test"
      [] low = "documentation"         -> "docs"
      [] low = "configuration"         -> "config"
      [] OTHER                         -> low

\* C7: when all changed paths share one top-level directory, the scope is that
\* directory's name in lower case, mapped through the synonym table; a name
\* that is not in the table is returned in lower case.
C7_LowerCasedScope ==
    (scope_ret # Pending /\ AllShareTopDirectory(changed)) =>
        scope_ret = ClaimedSynonym(Lower(changed[1][1]))

\* the git invocations of a run that failed
DefaultMode(c) == ~c.staged /\ c.branch = None
SymbolicRefFailed == DefaultMode(cli) /\ ~git.symbolic_ref.ok
NoRetry(invocations) ==
    \A i, j \in 1..Len(invocations) : i # j => invocations[i] # invocations[j]

\* C10 (as amended): a failed diff invocation (--staged, --branch or default
\* mode) prints the error and ends the run with status 1 and no message; a
\* failed symbolic-ref invocation of the default mode prints the error and the
\* run goes on to git diff, whose outcome alone decides status and message; no
\* invocation is made twice.
C10_GitFailure ==
    procA.pc = "exited" =>
        /\ NoRetry(procA.invocations)
        /\ Len(procA.stderr) = (IF SymbolicRefFailed THEN 1 ELSE 0) + (IF git.diff.ok THEN 0 ELSE 1)
        /\ ~git.diff.ok => procA.exit_code = 1 /\ procA.message = NoMessage
        /\ SymbolicRefFailed =>
              procA.invocations = <<"git symbolic-ref refs/remotes/origin/HEAD", "git diff">>
        /\ (git.diff.ok /\ git.diff.stdout # << >>) =>
              procA.exit_code = 0 /\ procA.message # NoMessage
        /\ (git.diff.ok /\ git.diff.stdout = << >>) =>
              procA.exit_code = 0 /\ procA.message = NoMessage

\* C10 witness: the symbolic-ref invocation failed, the diff succeeded, and a
\* message was printed with status 0
C10_Witness ==
    /\ procA.pc = "exited" /\ SymbolicRefFailed
    /\ procA.stderr # << >>
    /\ procA.message # NoMessage /\ procA.exit_code = 0

\* C10 (as claimed): after any failed git invocation, in every mode, the error
\* is printed, the run ends with status 1 and no message, and nothing is retried.
C10_AsClaimed ==
    (procA.pc = "exited" /\ (SymbolicRefFailed \/ ~git.diff.ok)) =>
        /\ procA.stderr # << >>
        /\ procA.exit_code = 1
        /\ procA.message = NoMessage
        /\ NoRetry(procA.invocations)

(***************************************************************************)
(* Tool B: --fix, the order of the issues, the static checks               *)
(***************************************************************************)
\* C11: a run with --fix ends in an outcome that a run without the flag over
\* the same environment does not have (a 'not supported' condition), and it
\* leaves the configuration file as it was.
C11_FixNotSupported ==
    [][(proc.pc = "start" /\ proc'.pc = "exited" /\ args.fix) =>
          /\ proc' # main([args EXCEPT !.fix = FALSE], env)
          /\ env' = env]_vars

\* the position, in the order validate() runs them, of the check that
\* appends an issue with this message; 0 for the load failure
CheckOf(issue) ==
    CASE issue.message \in {"Unclosed quotes detected", "Possible typo"} -> 1
      [] issue.message = "Duplicate key binding" -> 2
      [] issue.message = "Deprecated option" -> 3
      [] issue.message = "Invalid color value" -> 4
      [] issue.message = "Source file not found" -> 5
      [] issue.message \in {"tmux validation error", "tmux validation timeout",
                            "tmux not found in PATH",
                            "Could not validate with tmux"} -> 6
      [] OTHER -> 0

LevelRank(level) ==
    CASE level = "ERROR" -> 1 [] level = "WARNING" -> 2 [] OTHER -> 3

InCheckOrder(issues) ==
    \A i, j \in 1..Len(issues) : i < j => CheckOf(issues[i]) <= CheckOf(issues[j])

\* the printed items are the issues, grouped ERROR, WARNING, INFO, each group
\* in the order of the list
GroupedByLevel(items, issues) ==
    /\ Len(items) = Len(issues)
    /\ \A i, j \in 1..Len(items) :
          i < j => LevelRank(items[i].level) <= LevelRank(items[j].level)
    /\ \A l \in {"ERROR", "WARNING", "INFO"} :
          SelectSeq(items, LAMBDA x : x.level = l)
             = SelectSeq(issues, LAMBDA x : x.level = l)

\* the JSON array holds one object per issue, in list order, with the issue's
\* level, line number, message, content and suggestion
SameInListOrder(items, issues) ==
    /\ Len(items) = Len(issues)
    /\ \A k \in 1..Len(issues) :
          /\ items[k].level = issues[k].level
          /\ items[k].line = issues[k].line_number
          /\ items[k].message = issues[k].message
          /\ items[k].content = issues[k].line_content
          /\ items[k].suggestion = issues[k].suggestion

\* C12: the issue list of a run is in check-execution order (syntax,
\* key-binding, deprecated option, color, path, live validation); the text
\* report prints the ERROR group, then WARNING, then INFO, each in the order of
\* the list; --json emits the same issues in list order with level and line
\* unchanged.
C12_IssueOrder ==
    (proc.pc = "exited" /\ UsedPath(args, env.status) # None) =>
        /\ InCheckOrder(proc.issues)
        /\ proc.issues = proc.validator.issues
        /\ IF args.json
           THEN /\ proc.stdout.kind = "json"
                /\ SameInListOrder(proc.stdout.items, proc.issues)
           ELSE IF proc.issues = << >>
           THEN proc.stdout.kind = "no issues" /\ proc.stdout.items = << >>
           ELSE /\ proc.stdout.kind = "report"
                /\ GroupedByLevel(proc.stdout.items, proc.issues)

\* C12 witness: a text report whose issue list is not in line order (a later
\* line's issue comes first) and whose groups reorder the list
C12_Witness ==
    /\ proc.pc = "exited" /\ proc.stdout.kind = "report"
    /\ proc.stdout.items # proc.issues
    /\ \E i, j \in 1..Len(proc.issues) :
          /\ i < j
          /\ proc.issues[j].line_number > 0
          /\ proc.issues[i].line_number > proc.issues[j].line_number
          /\ CheckOf(proc.issues[i]) < CheckOf(proc.issues[j])

(***************************************************************************)
(* Tool A: the commit body                                                 *)
(***************************************************************************)
Smaller(a, b) == IF a < b THEN a ELSE b

\* the number of lines of the path listing, as the claim states it
ListingLength(n) ==
    IF n > 3 THEN 1 + Smaller(n, 10) + (IF n > 10 THEN 1 ELSE 0) ELSE 0

\* C13: generate_body lists the changed paths only when more than 3 files
\* changed, at most the first 10 in diff order, with an '... and N more files'
\* line, N = files - 10, exactly when more than 10 changed; a blank line and
\* the '+A -D' line follow exactly when additions > 50 or deletions > 50; with
\* at most 3 files and both counts at most 50 the body is empty.
C13_Body ==
    body_ret # NoBody =>
        LET files == diff_summary.files_changed
            n == Len(files)
            a == diff_summary.additions
            d == diff_summary.deletions
            stats == a > 50 \/ d > 50
            k == ListingLength(n)
        IN  /\ Len(body_ret) = k + (IF stats THEN 2 ELSE 0)
            /\ n > 3 =>
                 /\ body_ret[1].kind = "Modified files:"
                 /\ \A i \in 1..Smaller(n, 10) :
                       /\ body_ret[1 + i].kind = "  - {}"
                       /\ body_ret[1 + i].path = files[i]
                 /\ n > 10 =>
                      /\ body_ret[12].kind = "  ... and {} more files"
                      /\ body_ret[12].n = n - 10
            /\ stats =>
                 /\ body_ret[k + 1].kind = ""
                 /\ body_ret[k + 2].kind = "Changes: +{} -{}"
                 /\ body_ret[k + 2].n = a
                 /\ body_ret[k + 2].m = d
            /\ (n <= 3 /\ a <= 50 /\ d <= 50) => body_ret = << >>

\* C13 witness: more than 10 files changed and only the additions exceed 50;
\* the body holds the header, ten paths, the 'more' line and the statistic
C13_Witness ==
    /\ body_ret # NoBody
    /\ Len(diff_summary.files_changed) > 11
    /\ diff_summary.additions > 50 /\ diff_summary.deletions <= 50
    /\ Len(body_ret) = 14
    /\ body_ret[12].n = Len(diff_summary.files_changed) - 10

(***************************************************************************)
(* Tool B: the issues of the static checks                                 *)
(***************************************************************************)
\* C14: every issue of the five static checks (syntax, key-binding,
\* deprecated option, color, path) has a line number in 1..N for a file of N
\* lines, carries the content of that line, which is neither blank nor a
\* comment, and is an ERROR for syntax and path findings and a WARNING for
\* key-binding, deprecated-option and color findings; line number 0 occurs
\* only on the load-failure issue and on the issues of the live validation.
C14_StaticIssues ==
    calls >= 1 =>
        \A k \in 1..Len(ret) :
            LET issue == ret[k]
                c == CheckOf(issue)
            IN  /\ c \in 1..5 =>
                     /\ issue.line_number \in 1..Len(env.lines)
                     /\ ~Skipped(env.lines[issue.line_number])
                     /\ issue.line_content = env.lines[issue.line_number]
                     /\ issue.level = IF c \in {1, 5} THEN "ERROR" ELSE "WARNING"
                /\ issue.line_number = 0 => c \in {0, 6}

\* C14 witness: the first line of the file is blank or a comment, a static
\* check has reported a later line, and the live validation has added an
\* issue with line number 0
C14_Witness ==
    /\ calls >= 1
    /\ Len(env.lines) >= 2 /\ Skipped(env.lines[1])
    /\ \E k \in 1..Len(ret) : CheckOf(ret[k]) \in 1..5 /\ ret[k].line_number > 1
    /\ \E k \in 1..Len(ret) : CheckOf(ret[k]) = 6 /\ ret[k].line_number = 0

====
